---- MODULE Spec2Model ----
(***************************************************************************)
(* Model of rlds_converters/soar_dataset/soar_dataset_dataset_builder.py:  *)
(* the per-trajectory conversion SOARDataset._process_example with its     *)
(* loaders, and the discovery loop SOARDataset._split_generators.          *)
(*                                                                         *)
(* A trajectory directory is a record of its four files.  Images are BGR   *)
(* triples as the decoder yields them, array rows are 7-vectors of float64 *)
(* values (integers here, so that the float32 cast can round), text files  *)
(* are sequences of one-character strings.                                 *)
(***************************************************************************)
EXTENDS Integers, Sequences, FiniteSets, TLC

VARIABLES fs, pc, out, cap, reads, err, result,
          proportion, paths, children, pos, train_inputs, val_inputs,
          printed, split_pc, splits

vars == <<fs, pc, out, cap, reads, err, result,
          proportion, paths, children, pos, train_inputs, val_inputs,
          printed, split_pc, splits>>

procVars == <<fs, pc, out, cap, reads, err, result>>
splitVars == <<proportion, paths, children, pos, train_inputs, val_inputs,
               printed, split_pc, splits>>

(* ---------------------------- bounds ---------------------------------- *)
MaxLen == 2        \* longest video / array, in timesteps
MaxText == 2       \* longest language_text.txt, in characters
ConcLen == 1       \* longest stream in the concurrent specification
MaxDirs == 2       \* directories matched by the depth glob
MaxTraj == 2       \* traj* children of one directory

(* ------------------------- program constants -------------------------- *)
STATE_DIM == 7
TRAIN_PROPORTION == <<1, 1>>     \* 1.0 as numerator / denominator

(* ----------------------------- helpers -------------------------------- *)
SeqsUpTo(S, n) == UNION {[1..k -> S] : k \in 0..n}

Take(s, n) == SubSeq(s, 1, n)
Drop(s, n) == SubSeq(s, n + 1, Len(s))

(* numpy astype(np.float32) on a float64 holding an integer below 2^25:    *)
(* exact up to 2^24, above that round to the nearest even number, ties to  *)
(* the one whose 24-bit mantissa is even.                                  *)
TwoTo24 == 16777216

Float32(x) ==
    IF x <= TwoTo24 \/ x % 2 = 0 THEN x
    ELSE IF ((x - 1) \div 2) % 2 = 0 THEN x - 1 ELSE x + 1

AsFloat32(row) == [k \in DOMAIN row |-> Float32(row[k])]

(* cv2.cvtColor(frame, cv2.COLOR_BGR2RGB): swap the first and third        *)
(* channel of the frame.                                                   *)
CvtColor(frame) == <<frame[3], frame[2], frame[1]>>

(* ------------------------------ inputs -------------------------------- *)
Paths == {"t1", "t2"}

BgrFrames == {<<0, 0, 1>>, <<1, 0, 0>>}
Rows == {[k \in 1..STATE_DIM |-> 1],
         [k \in 1..STATE_DIM |-> IF k = STATE_DIM THEN TwoTo24 + 1 ELSE 2]}
Chars == {" ", "a", "\n"}
Whitespace == {" ", "\n"}

Videos(n) ==
    {[exists |-> FALSE, opens |-> FALSE, frames |-> <<>>],
     [exists |-> TRUE, opens |-> FALSE, frames |-> <<>>]}
    \cup {[exists |-> TRUE, opens |-> TRUE, frames |-> f] :
              f \in SeqsUpTo(BgrFrames, n)}

Arrays(n) ==
    {[exists |-> FALSE, rows |-> <<>>]}
    \cup {[exists |-> TRUE, rows |-> r] : r \in SeqsUpTo(Rows, n)}

TextFiles(n) ==
    {[exists |-> FALSE, text |-> <<>>]}
    \cup {[exists |-> TRUE, text |-> t] : t \in SeqsUpTo(Chars, n)}

Trajectories(n, m) ==
    [video : Videos(n), eef : Arrays(n), actions : Arrays(n),
     lang : TextFiles(m)]

EmptyDir ==
    [video |-> [exists |-> FALSE, opens |-> FALSE, frames |-> <<>>],
     eef |-> [exists |-> FALSE, rows |-> <<>>],
     actions |-> [exists |-> FALSE, rows |-> <<>>],
     lang |-> [exists |-> FALSE, text |-> <<>>]]

(* ------------------------- process_lang ------------------------------- *)
(* f.readline(): the characters up to and including the first newline.    *)
RECURSIVE Readline(_)
Readline(text) ==
    IF text = <<>> THEN <<>>
    ELSE IF Head(text) = "\n" THEN <<"\n">>
    ELSE <<Head(text)>> \o Readline(Tail(text))

RECURSIVE LStrip(_)
LStrip(s) ==
    IF s # <<>> /\ Head(s) \in Whitespace THEN LStrip(Tail(s)) ELSE s

RECURSIVE RStrip(_)
RStrip(s) ==
    IF s # <<>> /\ s[Len(s)] \in Whitespace
    THEN RStrip(SubSeq(s, 1, Len(s) - 1)) ELSE s

StripLeftOnly(s) == LStrip(s)

Strip(s) == RStrip(LStrip(s))

NoError == [kind |-> "none", site |-> "", path |-> "", lens |-> <<>>]
Error(kind, site) == [kind |-> kind, site |-> site, path |-> "", lens |-> <<>>]

NoOut == [images |-> <<>>, state |-> <<>>, actions |-> <<>>, lang |-> <<>>]

NoResult ==
    [returned |-> FALSE, key |-> "",
     sample |-> [steps |-> <<>>,
                 episode_metadata |-> [file_path |-> "",
                                       has_language |-> FALSE]]]

(* out[...] = value, on the dict local to one invocation *)
StoreShared(o, p, field, v) == [q \in DOMAIN o |-> [o[q] EXCEPT ![field] = v]]

Store(o, p, field, v) == [o EXCEPT ![p][field] = v]

(* ------------------------- video_to_frames ---------------------------- *)
(* np.stack(frames, axis=0) raises ValueError on an empty list.           *)
StackRaises(frames) == frames = <<>>

Fail(p, e) ==
    /\ pc' = [pc EXCEPT ![p] = "failed"]
    /\ err' = [err EXCEPT ![p] = e]

(* process_images: the assert on os.path.exists fails.                    *)
VideoMissing(p) ==
    /\ pc[p] = "images"
    /\ ~fs[p].video.exists
    /\ Fail(p, Error("AssertionError", "process_images"))
    /\ UNCHANGED <<fs, out, cap, reads, result>>

(* video_to_frames: cap.isOpened() is false, ValueError.                  *)
VideoUnopenable(p) ==
    /\ pc[p] = "images"
    /\ fs[p].video.exists /\ ~fs[p].video.opens
    /\ reads' = [reads EXCEPT ![p] = Append(@, "trajectory.mp4")]
    /\ Fail(p, Error("ValueError", "isOpened"))
    /\ UNCHANGED <<fs, out, cap, result>>

(* video_to_frames: cv2.cvtColor raises on frame number bad; the          *)
(* exception leaves the function before cap.release().                    *)
FrameConversionRaises(p) ==
    /\ pc[p] = "images"
    /\ fs[p].video.exists /\ fs[p].video.opens
    /\ \E bad \in 1..Len(fs[p].video.frames) :
          /\ cap' = [cap EXCEPT ![p] = "open"]
          /\ reads' = [reads EXCEPT ![p] = Append(@, "trajectory.mp4")]
          /\ Fail(p, [kind |-> "cv2.error", site |-> "cvtColor",
                      path |-> "", lens |-> <<bad>>])
    /\ UNCHANGED <<fs, out, result>>

(* video_to_frames: every frame is read and converted, the handle is      *)
(* released, then the list is stacked.                                    *)
DecodeVideo(p) ==
    /\ pc[p] = "images"
    /\ fs[p].video.exists /\ fs[p].video.opens
    /\ LET raw == fs[p].video.frames
           frames == [i \in 1..Len(raw) |-> CvtColor(raw[i])]
       IN /\ cap' = [cap EXCEPT ![p] = "released"]
          /\ reads' = [reads EXCEPT ![p] = Append(@, "trajectory.mp4")]
          /\ IF StackRaises(frames)
             THEN /\ Fail(p, Error("ValueError", "np.stack"))
                  /\ out' = out
             ELSE /\ out' = Store(out, p, "images", frames)
                  /\ pc' = [pc EXCEPT ![p] = "state"]
                  /\ err' = err
    /\ UNCHANGED <<fs, result>>

(* --------------------------- process_state ---------------------------- *)
ProcessState(p) ==
    /\ pc[p] = "state"
    /\ reads' = [reads EXCEPT ![p] = Append(@, "eef_poses.npy")]
    /\ IF fs[p].eef.exists
       THEN /\ out' = Store(out, p, "state", fs[p].eef.rows)
            /\ pc' = [pc EXCEPT ![p] = "actions"]
            /\ err' = err
       ELSE /\ Fail(p, Error("FileNotFoundError", "process_state"))
            /\ out' = out
    /\ UNCHANGED <<fs, cap, result>>

(* -------------------------- process_actions --------------------------- *)
ProcessActions(p) ==
    /\ pc[p] = "actions"
    /\ reads' = [reads EXCEPT ![p] = Append(@, "actions.npy")]
    /\ IF fs[p].actions.exists
       THEN /\ out' = Store(out, p, "actions", fs[p].actions.rows)
            /\ pc' = [pc EXCEPT ![p] = "lang"]
            /\ err' = err
       ELSE /\ Fail(p, Error("FileNotFoundError", "process_actions"))
            /\ out' = out
    /\ UNCHANGED <<fs, cap, result>>

(* ---------------------------- process_lang ---------------------------- *)
ProcessLangText(file) ==
    IF file.exists THEN Strip(Readline(file.text)) ELSE <<>>

(* the same loader with the os.path.exists guard left out *)
ProcessLangUnguarded(p) ==
    /\ pc[p] = "lang"
    /\ IF fs[p].lang.exists
       THEN /\ out' = Store(out, p, "lang", Strip(Readline(fs[p].lang.text)))
            /\ reads' = [reads EXCEPT ![p] = Append(@, "language_text.txt")]
            /\ pc' = [pc EXCEPT ![p] = "assert"]
            /\ err' = err
       ELSE /\ Fail(p, Error("FileNotFoundError", "process_lang"))
            /\ UNCHANGED <<out, reads>>
    /\ UNCHANGED <<fs, cap, result>>

ProcessLang(p) ==
    /\ pc[p] = "lang"
    /\ out' = Store(out, p, "lang", ProcessLangText(fs[p].lang))
    /\ reads' = [reads EXCEPT ![p] =
                    IF fs[p].lang.exists
                    THEN Append(@, "language_text.txt") ELSE @]
    /\ pc' = [pc EXCEPT ![p] = "assert"]
    /\ UNCHANGED <<fs, cap, result, err>>

(* ----------------------- _process_example ----------------------------- *)
LengthsAgree(la, ls, li) == la = ls /\ ls = li

CheckLengths(p) ==
    /\ pc[p] = "assert"
    /\ LET la == Len(out[p].actions)
           ls == Len(out[p].state)
           li == Len(out[p].images)
       IN IF LengthsAgree(la, ls, li)
          THEN /\ pc' = [pc EXCEPT ![p] = "assemble"]
               /\ err' = err
          ELSE Fail(p, [kind |-> "AssertionError", site |-> "lengths",
                        path |-> p, lens |-> <<la, ls, li>>])
    /\ UNCHANGED <<fs, out, cap, reads, result>>

IsFirst(i) == i = 0

IsLastOffByOne(i, n) == i = n

IsLast(i, n) == i = n - 1

(* the loop index i is the Python one, 0 .. n-1 *)
StepRecordShifted(o, i, n) ==
    [observation |-> [state |-> AsFloat32(o.state[i + 1]),
                      image_0 |-> o.images[1]],
     action |-> AsFloat32(o.actions[i + 1]),
     is_first |-> IsFirst(i),
     is_last |-> IsLast(i, n),
     language_instruction |-> o.lang]

StepRecord(o, i, n) ==
    [observation |-> [state |-> AsFloat32(o.state[i + 1]),
                      image_0 |-> o.images[i + 1]],
     action |-> AsFloat32(o.actions[i + 1]),
     is_first |-> IsFirst(i),
     is_last |-> IsLast(i, n),
     language_instruction |-> o.lang]

Episode(o) ==
    LET n == Len(o.actions)
    IN [k \in 1..n |-> StepRecord(o, k - 1, n)]

HasLanguage(instruction) == instruction # <<>>

EpisodeMetadata(p, o) ==
    [file_path |-> p, has_language |-> HasLanguage(o.lang)]

Assemble(p) ==
    /\ pc[p] = "assemble"
    /\ result' = [result EXCEPT ![p] =
                    [returned |-> TRUE, key |-> p,
                     sample |-> [steps |-> Episode(out[p]),
                                 episode_metadata |->
                                     EpisodeMetadata(p, out[p])]]]
    /\ pc' = [pc EXCEPT ![p] = "done"]
    /\ UNCHANGED <<fs, out, cap, reads, err>>

ProcessExample(p) ==
    \/ VideoMissing(p)
    \/ VideoUnopenable(p)
    \/ FrameConversionRaises(p)
    \/ DecodeVideo(p)
    \/ ProcessState(p)
    \/ ProcessActions(p)
    \/ ProcessLang(p)
    \/ CheckLengths(p)
    \/ Assemble(p)

SplitIdle ==
    /\ proportion = TRAIN_PROPORTION
    /\ paths = <<>>
    /\ children = <<>>
    /\ pos = 0
    /\ train_inputs = <<>>
    /\ val_inputs = <<>>
    /\ printed = <<>>
    /\ split_pc = "idle"
    /\ splits = <<>>

ProcStart(scheduled) ==
    /\ pc = [p \in Paths |-> IF p \in scheduled THEN "images" ELSE "unscheduled"]
    /\ out = [p \in Paths |-> NoOut]
    /\ cap = [p \in Paths |-> "none"]
    /\ reads = [p \in Paths |-> <<>>]
    /\ err = [p \in Paths |-> NoError]
    /\ result = [p \in Paths |-> NoResult]

(* ------------------------ _split_generators --------------------------- *)
(* glob.glob(os.path.join(path, "traj*")) *)
Glob(path) == children[path]

(* int(len(all_inputs) * TRAIN_PROPORTION), the proportion a fraction *)
TrainCountCeil(n, p) == (n * p[1] + p[2] - 1) \div p[2]

TrainCount(n, p) == (n * p[1]) \div p[2]

(* the loop body when all_traj is empty, with break for continue *)
SplitSkipBreak ==
    /\ split_pc = "loop"
    /\ pos < Len(paths)
    /\ Glob(paths[pos + 1]) = <<>>
    /\ printed' = Append(printed, paths[pos + 1])
    /\ pos' = Len(paths)
    /\ UNCHANGED <<proportion, paths, children, train_inputs, val_inputs,
                   split_pc, splits>>

(* the loop body when all_traj is empty: print and continue *)
SplitSkip ==
    /\ split_pc = "loop"
    /\ pos < Len(paths)
    /\ Glob(paths[pos + 1]) = <<>>
    /\ printed' = Append(printed, paths[pos + 1])
    /\ pos' = pos + 1
    /\ UNCHANGED <<proportion, paths, children, train_inputs, val_inputs,
                   split_pc, splits>>

(* the loop body when all_traj is not empty *)
SplitExtend ==
    /\ split_pc = "loop"
    /\ pos < Len(paths)
    /\ LET all_inputs == Glob(paths[pos + 1])
           k == TrainCount(Len(all_inputs), proportion)
       IN /\ all_inputs # <<>>
          /\ train_inputs' = train_inputs \o Take(all_inputs, k)
          /\ val_inputs' = val_inputs \o Drop(all_inputs, k)
    /\ pos' = pos + 1
    /\ UNCHANGED <<proportion, paths, children, printed, split_pc, splits>>

(* after the loop: log the counts, return the dict of splits *)
SplitReturn ==
    /\ split_pc = "loop"
    /\ pos = Len(paths)
    /\ splits' = [s \in {"train"} |-> train_inputs]
    /\ split_pc' = "returned"
    /\ UNCHANGED <<proportion, paths, children, pos, train_inputs,
                   val_inputs, printed>>

Proportions == {<<0, 1>>, <<1, 2>>, TRAIN_PROPORTION}

ProcIdle ==
    /\ fs = [p \in Paths |-> EmptyDir]
    /\ ProcStart({})

(* the directories the depth glob matched, each with its traj* children *)
SplitInit ==
    /\ \E nd \in 0..MaxDirs :
          \E cnt \in [1..nd -> 0..MaxTraj] :
             /\ paths = [d \in 1..nd |-> d]
             /\ children = [d \in 1..nd |-> [k \in 1..cnt[d] |-> <<d, k>>]]
    /\ proportion \in Proportions
    /\ pos = 0
    /\ train_inputs = <<>>
    /\ val_inputs = <<>>
    /\ printed = <<>>
    /\ split_pc = "loop"
    /\ splits = <<>>
    /\ ProcIdle

SplitNext ==
    (SplitSkip \/ SplitExtend \/ SplitReturn) /\ UNCHANGED procVars

SplitSpec == SplitInit /\ [][SplitNext]_vars

(* one invocation of _process_example on t1 *)
Init ==
    /\ \E t \in Trajectories(MaxLen, MaxText) :
          fs = [p \in Paths |-> IF p = "t1" THEN t ELSE EmptyDir]
    /\ ProcStart({"t1"})
    /\ SplitIdle

Next == \E p \in Paths : ProcessExample(p) /\ UNCHANGED splitVars

Spec == Init /\ [][Next]_vars

(* two workers of the pool, each on a trajectory of its own *)
ConcTrajectories ==
    {t \in Trajectories(ConcLen, 1) :
        /\ \A i \in DOMAIN t.video.frames : t.video.frames[i] = <<0, 0, 1>>
        /\ \A i \in DOMAIN t.eef.rows : t.eef.rows[i][1] = 1
        /\ \A i \in DOMAIN t.actions.rows : t.actions.rows[i][1] = 1
        /\ t.lang.exists => t.lang.text = <<"a">>}

ConcInit ==
    /\ fs \in [Paths -> ConcTrajectories]
    /\ ProcStart(Paths)
    /\ SplitIdle

ConcSpec == ConcInit /\ [][Next]_vars

(* ======================= properties ================================== *)
Scheduled == {p \in Paths : pc[p] # "unscheduled"}
Terminal(p) == pc[p] \in {"done", "failed"}
Steps(p) == result[p].sample.steps
Metadata(p) == result[p].sample.episode_metadata

Representable32(v) == v <= TwoTo24 \/ v % 2 = 0
Dist(a, b) == IF a < b THEN b - a ELSE a - b
IsFloat32Of(v, x) ==
    /\ Representable32(v)
    /\ \A w \in (x - 1)..(x + 1) : Representable32(w) => Dist(v, x) <= Dist(w, x)
IsCastRow(r, row) ==
    /\ DOMAIN r = DOMAIN row
    /\ \A k \in DOMAIN row : IsFloat32Of(r[k], row[k])

C2_StepFlags ==
    \A p \in Scheduled :
        pc[p] = "done" =>
            \A i \in DOMAIN Steps(p) :
                /\ Steps(p)[i].is_first = (i = 1)
                /\ Steps(p)[i].is_last = (i = Len(Steps(p)))

C2_Witness ==
    /\ pc["t1"] = "done"
    /\ Len(Steps("t1")) = 2
    /\ Steps("t1")[1].is_first /\ ~Steps("t1")[1].is_last
    /\ ~Steps("t1")[2].is_first /\ Steps("t1")[2].is_last

(* the three files are present, the video opened and was decoded to        *)
(* end-of-stream: the three stream lengths of the trajectory are defined   *)
StreamsLoaded(p) ==
    /\ fs[p].video.exists /\ fs[p].video.opens
    /\ fs[p].eef.exists /\ fs[p].actions.exists
    /\ cap[p] = "released"

StreamLens(p) ==
    <<Len(fs[p].actions.rows), Len(fs[p].eef.rows), Len(fs[p].video.frames)>>

(* C3: whenever the numbers of actions, states and decoded frames are not  *)
(* all equal, the invocation fails with the path and the three lengths as  *)
(* diagnostic context and returns no episode.                              *)
C3_MismatchFailsWithLengths ==
    \A p \in Scheduled :
        (/\ StreamsLoaded(p)
         /\ ~(StreamLens(p)[1] = StreamLens(p)[2]
              /\ StreamLens(p)[2] = StreamLens(p)[3])
         /\ Terminal(p))
        => /\ pc[p] = "failed"
           /\ ~result[p].returned
           /\ err[p].kind = "AssertionError"
           /\ err[p].path = p
           /\ err[p].lens = StreamLens(p)

(* C4: a trajectory whose video, state file and action file are present    *)
(* and all of length 0 is assembled without failure into an episode with   *)
(* an empty step sequence and its metadata record.                         *)
C4_EmptyTrajectoryAssembles ==
    \A p \in Scheduled :
        (/\ StreamsLoaded(p)
         /\ StreamLens(p) = <<0, 0, 0>>
         /\ Terminal(p))
        => /\ pc[p] = "done"
           /\ result[p].returned
           /\ Steps(p) = <<>>
           /\ Metadata(p).file_path = p

(* C5: no way out of video_to_frames leaves the video handle open.         *)
C5_HandleReleasedOnExit ==
    \A p \in Scheduled : pc[p] # "images" => cap[p] # "open"

(* the first line of a text: up to and including its first newline *)
IsFirstLineOf(line, text) ==
    /\ Len(line) <= Len(text)
    /\ line = SubSeq(text, 1, Len(line))
    /\ \A i \in 1..(Len(line) - 1) : line[i] # "\n"
    /\ Len(line) < Len(text) => (line # <<>> /\ line[Len(line)] = "\n")

(* s is line without its leading and trailing whitespace *)
IsStrippedOf(s, line) ==
    /\ s # <<>> => (s[1] \notin Whitespace /\ s[Len(s)] \notin Whitespace)
    /\ \E a \in 0..Len(line) :
          /\ a + Len(s) <= Len(line)
          /\ s = SubSeq(line, a + 1, a + Len(s))
          /\ \A i \in 1..a : line[i] \in Whitespace
          /\ \A i \in (a + Len(s) + 1)..Len(line) : line[i] \in Whitespace

(* C6: in every emitted episode language_instruction is the same string on *)
(* all steps, the whitespace-stripped first line of language_text.txt when *)
(* the file exists and the empty string when it is absent; absence never   *)
(* raises; has_language is true exactly when that string is non-empty.     *)
C6_LanguageInstruction ==
    \A p \in Scheduled :
        /\ pc[p] = "failed" => err[p].site # "process_lang"
        /\ pc[p] = "done" =>
              LET instruction == out[p].lang
              IN /\ \A i \in DOMAIN Steps(p) :
                        Steps(p)[i].language_instruction = instruction
                 /\ IF fs[p].lang.exists
                    THEN \E line \in SeqsUpTo(Chars, Len(fs[p].lang.text)) :
                            /\ IsFirstLineOf(line, fs[p].lang.text)
                            /\ IsStrippedOf(instruction, line)
                    ELSE instruction = <<>>
                 /\ Metadata(p).has_language = (instruction # <<>>)

C6_Witness ==
    /\ pc["t1"] = "done"
    /\ Len(Steps("t1")) = 2
    /\ fs["t1"].lang.text = <<"a", "\n">>
    /\ Steps("t1")[1].language_instruction = <<"a">>
    /\ Steps("t1")[2].language_instruction = <<"a">>
    /\ Metadata("t1").has_language

(* C7: a missing trajectory.mp4, eef_poses.npy or actions.npy, or a video  *)
(* that cannot be opened, makes the invocation fail without returning an   *)
(* episode; a missing video fails before any file is read; a missing       *)
(* instruction file is never the cause of a failure.                       *)
C7_MissingFilesFail ==
    \A p \in Scheduled :
        /\ (~fs[p].video.exists \/ ~fs[p].video.opens)
              => /\ pc[p] \in {"images", "failed"}
                 /\ ~result[p].returned
        /\ ~fs[p].eef.exists
              => /\ pc[p] \in {"images", "state", "failed"}
                 /\ ~result[p].returned
        /\ ~fs[p].actions.exists
              => /\ pc[p] \in {"images", "state", "actions", "failed"}
                 /\ ~result[p].returned
        /\ ~fs[p].video.exists => reads[p] = <<>>
        /\ (pc[p] = "failed" /\ ~fs[p].video.exists)
              => err[p].site = "process_images"
        /\ (~fs[p].lang.exists /\ pc[p] = "failed")
              => err[p].site # "process_lang"
        /\ (~fs[p].lang.exists /\ pc[p] \in {"assert", "assemble", "done"})
              => out[p].lang = <<>>

C7_Witness ==
    /\ pc["t1"] = "failed"
    /\ ~fs["t1"].video.exists
    /\ fs["t1"].eef.exists /\ fs["t1"].actions.exists
    /\ reads["t1"] = <<>>
    /\ err["t1"].kind = "AssertionError"

(* -------------------------- discovery --------------------------------- *)
ChildrenOf(ds) == UNION {{children[d][k] : k \in DOMAIN children[d]} : d \in ds}
Occurrences(x, s) == Cardinality({i \in DOMAIN s : s[i] = x})
Floor(n, p) ==
    CHOOSE q \in 0..n : q * p[2] <= n * p[1] /\ n * p[1] < (q + 1) * p[2]
(* discovery order: directory order, then glob order inside a directory *)
Before(x, y) == x[1] < y[1] \/ (x[1] = y[1] /\ x[2] < y[2])
InOrder(s) == \A i, j \in DOMAIN s : i < j => Before(s[i], s[j])

(* C8: when _split_generators returns, the first floor(count * p) matches  *)
(* of every directory are in the train sequence and the others in the      *)
(* validation sequence, each path in exactly one of the two, in discovery  *)
(* order; with p = 1.0 validation is empty; only train is returned.        *)
C8_SplitPartition ==
    split_pc = "returned" =>
        /\ \A d \in DOMAIN paths : \A k \in DOMAIN children[d] :
              LET x == children[d][k]
                  inTrain == k <= Floor(Len(children[d]), proportion)
              IN /\ Occurrences(x, train_inputs) = (IF inTrain THEN 1 ELSE 0)
                 /\ Occurrences(x, val_inputs) = (IF inTrain THEN 0 ELSE 1)
        /\ \A i \in DOMAIN train_inputs : train_inputs[i] \in ChildrenOf(DOMAIN paths)
        /\ \A i \in DOMAIN val_inputs : val_inputs[i] \in ChildrenOf(DOMAIN paths)
        /\ InOrder(train_inputs) /\ InOrder(val_inputs)
        /\ proportion = <<1, 1>> => val_inputs = <<>>
        /\ DOMAIN splits = {"train"}
        /\ splits["train"] = train_inputs

C8_Witness ==
    /\ split_pc = "returned"
    /\ proportion = <<1, 2>>
    /\ Len(paths) = 2
    /\ Len(children[1]) = 2 /\ Len(children[2]) = 1
    /\ train_inputs = <<children[1][1]>>
    /\ val_inputs = <<children[1][2], children[2][1]>>

(* C9: a directory without traj* children is skipped without raising: it   *)
(* adds nothing to train or validation, the loop goes on so that the       *)
(* children of every later directory are discovered, and the function      *)
(* returns also when nothing at all was found.                             *)
C9_EmptyDirectorySkipped ==
    split_pc \in {"loop", "returned"} =>
        LET done == 1..pos
            empty == {d \in done : children[d] = <<>>}
        IN /\ pos <= Len(paths)
           /\ split_pc = "returned" => pos = Len(paths)
           /\ {printed[i] : i \in DOMAIN printed} = empty
           /\ Len(printed) = Cardinality(empty)
           /\ {train_inputs[i] : i \in DOMAIN train_inputs}
                 \cup {val_inputs[i] : i \in DOMAIN val_inputs}
                 = ChildrenOf(done \ empty)
           /\ Len(train_inputs) + Len(val_inputs)
                 = Cardinality(ChildrenOf(done \ empty))
           /\ (split_pc = "returned" /\ ChildrenOf(DOMAIN paths) = {})
                 => splits["train"] = <<>>

C9_Witness ==
    /\ split_pc = "returned"
    /\ Len(paths) = 2
    /\ children[1] = <<>> /\ Len(children[2]) = 2
    /\ printed = <<1>>
    /\ Len(train_inputs) + Len(val_inputs) = 2

(* ------------------------- concurrency -------------------------------- *)
(* what _process_example returns for p when it runs alone on fs[p] *)
Alone(p) ==
    LET t == fs[p]
        o == [images |-> [i \in DOMAIN t.video.frames |->
                             CvtColor(t.video.frames[i])],
              state |-> t.eef.rows,
              actions |-> t.actions.rows,
              lang |-> ProcessLangText(t.lang)]
    IN [returned |-> TRUE, key |-> p,
        sample |-> [steps |-> Episode(o),
                    episode_metadata |-> EpisodeMetadata(p, o)]]

(* the trajectory can be converted: files present, video opens, at least   *)
(* one frame, equal lengths                                                *)
Convertible(t) ==
    /\ t.video.exists /\ t.video.opens /\ t.eef.exists /\ t.actions.exists
    /\ t.video.frames # <<>>
    /\ Len(t.video.frames) = Len(t.eef.rows)
    /\ Len(t.eef.rows) = Len(t.actions.rows)

(* C10: with invocations on different trajectories interleaved in any      *)
(* order, each successful one returns what it returns when run alone, its  *)
(* key and file_path being its own path; an invocation fails only for a    *)
(* reason in its own trajectory, and a failed invocation never keeps       *)
(* another one from taking its next step.                                  *)
C10_InvocationsIndependent ==
    \A p \in Scheduled :
        /\ pc[p] = "done" =>
              /\ result[p] = Alone(p)
              /\ result[p].key = p
              /\ Metadata(p).file_path = p
        /\ pc[p] # "done" => result[p] = NoResult
        /\ pc[p] = "failed" =>
              /\ ~Convertible(fs[p]) \/ err[p].site = "cvtColor"
              /\ err[p].path \in {"", p}
        /\ (Convertible(fs[p]) /\ Terminal(p) /\ cap[p] = "released")
              => pc[p] = "done"
        /\ ~Terminal(p) => ENABLED ProcessExample(p)

C10_Witness ==
    /\ pc["t1"] = "done" /\ pc["t2"] = "failed"
    /\ err["t2"].kind = "FileNotFoundError"
    /\ fs["t1"].lang.exists /\ ~fs["t2"].lang.exists
    /\ result["t1"].key = "t1"
    /\ Len(Steps("t1")) = 1

====
